---- MODULE Spec2Model ----
(***************************************************************************)
(* Model of src/main.rs: the ToyDag block-DAG (block store, tip set,       *)
(* anticone-based colouring, selected parent, StitchBot).                  *)
(*                                                                         *)
(* One action models one call of a ToyDag method from start to finish      *)
(* (or to the panic that ends the program).  A Rust panic unwinds out of   *)
(* main, which has no catch_unwind: the variable panicked records it and   *)
(* no action is enabled afterwards.  The fields keep the values they had   *)
(* when the panic was raised.                                              *)
(*                                                                         *)
(* The caller of create_block is outside the core.  driver names the       *)
(* policy of the caller of a run: "any" passes arbitrary parent lists,     *)
(* "wide" keeps attaching blocks to genesis so that the tip set grows      *)
(* past STITCH_THRESHOLD, "main" is the loop of main (iter is its loop     *)
(* variable i, pc the call it makes next).  call and ret record the last   *)
(* call and the id it returned.  print_dag only reads and is left out.     *)
(***************************************************************************)
EXTENDS Integers, Sequences, FiniteSets, TLC

VARIABLES blocks, tips, next_id, selected_parent, panicked, call, ret, driver,
          iter, pc

vars ==
    <<blocks, tips, next_id, selected_parent, panicked, call, ret, driver, iter, pc>>

dag == <<blocks, tips, next_id, selected_parent>>

(***************************************************************************)
(* Program constants.                                                      *)
(***************************************************************************)
K == 15

STITCH_THRESHOLD == 10

\* main: at most 3 parents per block, stitch_if_needed every 5th iteration
MainParents == 3

StitchEvery == 5

(***************************************************************************)
(* Bounds of the model.                                                    *)
(*   MaxFree    driver "any": no block is created once next_id reaches it; *)
(*              driver "wide": ids below it may extend selected_parent     *)
(*   MaxBlocks  driver "wide": no block is created once next_id reaches it *)
(*   MainSteps  driver "main": iterations of the loop (150 in the code)    *)
(***************************************************************************)
MaxFree == 4

MaxBlocks == 15

MainSteps == 10

Blue == "Blue"

Red == "Red"

NoPanic == "none"

AssertPanic == "assert"

IndexPanic == "index"

NoRet == -1

Range(s) == {s[i] : i \in 1..Len(s)}

(***************************************************************************)
(* Vec::sort on the parent ids: ascending, duplicates kept.                *)
(***************************************************************************)
RECURSIVE Insert(_, _)
Insert(x, s) ==
    IF s = <<>> THEN <<x>>
    ELSE IF x <= Head(s) THEN <<x>> \o s
    ELSE <<Head(s)>> \o Insert(x, Tail(s))

RECURSIVE Sort(_)
Sort(s) == IF s = <<>> THEN <<>> ELSE Insert(Head(s), Sort(Tail(s)))

(***************************************************************************)
(* u64::to_be_bytes: 8 bytes, most significant first.  Ids of the model    *)
(* are below 2^24, so the five leading bytes are 0.                        *)
(***************************************************************************)
to_be_bytes(x) ==
    [i \in 1..8 |-> IF i <= 5 THEN 0 ELSE (x \div (256 ^ (8 - i))) % 256]

RECURSIVE ConcatBytes(_)
ConcatBytes(ids) ==
    IF ids = <<>> THEN <<>> ELSE to_be_bytes(Head(ids)) \o ConcatBytes(Tail(ids))

(***************************************************************************)
(* Sha256 as an ideal hash: injective on the bytes fed to the hasher.      *)
(***************************************************************************)
Sha256(bytes) == <<"sha256", bytes>>

genesis_hash == [i \in 1..32 |-> 0]

\* seeded fault: the parent ids are hashed in the caller's order
BlockHashUnsorted(id, parent_ids) ==
    Sha256(to_be_bytes(id) \o ConcatBytes(parent_ids))

BlockHash(id, parent_ids) ==
    Sha256(to_be_bytes(id) \o ConcatBytes(Sort(parent_ids)))

genesis ==
    [id |-> 0, parents |-> <<>>, color |-> Blue, hash |-> genesis_hash]

(***************************************************************************)
(* future_set: the worklist of the code.  The order in which the queue is  *)
(* popped and the map is iterated does not change the set returned.        *)
(* No lookup by key: it never panics.                                      *)
(***************************************************************************)
RECURSIVE FutureWalk(_, _, _)
FutureWalk(bs, queue, future) ==
    IF queue = {} THEN future
    ELSE LET current == CHOOSE c \in queue : TRUE
             found == {c \in DOMAIN bs :
                          current \in Range(bs[c].parents) /\ c \notin future}
         IN  FutureWalk(bs, (queue \ {current}) \cup found, future \cup found)

\* seeded fault: the children found are not pushed on the queue
future_setDirect(bs, block_id) ==
    {block_id} \cup {c \in DOMAIN bs : block_id \in Range(bs[c].parents)}

future_set(bs, block_id) == FutureWalk(bs, {block_id}, {block_id})

(***************************************************************************)
(* anticone_size: |future(block) \ future(reference)| saturating_sub 1.    *)
(***************************************************************************)
SaturatingSub(a, b) == IF a >= b THEN a - b ELSE 0

\* seeded fault: the saturating_sub(1) is left out
anticone_sizeNoSub(bs, block_id, reference_id) ==
    Cardinality(future_set(bs, block_id) \ future_set(bs, reference_id))

anticone_size(bs, block_id, reference_id) ==
    SaturatingSub(
        Cardinality(future_set(bs, block_id) \ future_set(bs, reference_id)), 1)

(***************************************************************************)
(* past_set: the worklist of the code.  self.blocks[&current] panics when  *)
(* current is not a key of the map.                                        *)
(***************************************************************************)
RECURSIVE PastWalk(_, _, _)
PastWalk(bs, queue, past) ==
    IF queue = {} THEN [panic |-> FALSE, set |-> past]
    ELSE LET current == CHOOSE c \in queue : TRUE
         IN  IF current \notin DOMAIN bs
             THEN [panic |-> TRUE, set |-> past]
             ELSE LET found == Range(bs[current].parents) \ past
                  IN  PastWalk(bs, (queue \ {current}) \cup found,
                               past \cup found)

\* seeded fault: past.insert(block_id) is left out
past_setNoSelf(bs, block_id) == PastWalk(bs, {block_id}, {})

past_set(bs, block_id) == PastWalk(bs, {block_id}, {block_id})

PastSize(bs, block_id) == Cardinality(past_set(bs, block_id).set)

(***************************************************************************)
(* create_block, the tip update: the parents are visited in the order of   *)
(* the list, then the new id is inserted.                                  *)
(***************************************************************************)
\* seeded fault: && instead of || in the guard
RECURSIVE RemoveParentsAnd(_, _)
RemoveParentsAnd(ts, parent_ids) ==
    IF parent_ids = <<>> THEN ts
    ELSE LET pid == Head(parent_ids)
         IN  RemoveParentsAnd(
                 IF Cardinality(ts) > 1 /\ pid \notin ts THEN ts \ {pid} ELSE ts,
                 Tail(parent_ids))

\* seeded fault: the guard is left out
RemoveParentsUnguarded(ts, parent_ids) == ts \ Range(parent_ids)

RECURSIVE RemoveParents(_, _)
RemoveParents(ts, parent_ids) ==
    IF parent_ids = <<>> THEN ts
    ELSE LET pid == Head(parent_ids)
         IN  RemoveParents(
                 IF Cardinality(ts) > 1 \/ pid \notin ts THEN ts \ {pid} ELSE ts,
                 Tail(parent_ids))

\* seeded fault: the new id is inserted first and the parents are then removed
\* without the guard
UpdateTipsInsertFirst(ts, parent_ids, id) == (ts \cup {id}) \ Range(parent_ids)

UpdateTips(ts, parent_ids, id) == RemoveParents(ts, parent_ids) \cup {id}

(***************************************************************************)
(* update_selected_parent.                                                 *)
(***************************************************************************)
BlueTips(bs, ts) == {t \in ts : bs[t].color = Blue}

\* self.blocks[&t] in the filter, or a past_set called by max_by_key, panics
UpdatePanics(bs, ts) ==
    \/ \E t \in ts : t \notin DOMAIN bs
    \/ \E t \in BlueTips(bs, ts) : past_set(bs, t).panic

\* max_by_key over the iteration order of a HashSet: any blue tip of
\* maximal key can come out
\* seeded fault: the key of the best tip is kept instead of the tip
BestBlueTipsKey(bs, ts) ==
    {PastSize(bs, t) : t \in
        {t \in BlueTips(bs, ts) :
            \A u \in BlueTips(bs, ts) : PastSize(bs, t) >= PastSize(bs, u)}}

\* seeded fault: min_by_key instead of max_by_key
BestBlueTipsMin(bs, ts) ==
    {t \in BlueTips(bs, ts) :
        \A u \in BlueTips(bs, ts) : PastSize(bs, t) <= PastSize(bs, u)}

BestBlueTips(bs, ts) ==
    {t \in BlueTips(bs, ts) :
        \A u \in BlueTips(bs, ts) : PastSize(bs, t) >= PastSize(bs, u)}

NextSelectedParent(bs, ts, sp) ==
    IF BlueTips(bs, ts) = {} THEN {sp} ELSE BestBlueTips(bs, ts)

(***************************************************************************)
(* create_block, as called by op.                                          *)
(***************************************************************************)
Classify(bs, id, sp) == IF anticone_size(bs, id, sp) <= K THEN Blue ELSE Red

\* seeded fault: the block is inserted under the key before its id
StoreOffByOne(bs, block) ==
    [x \in DOMAIN bs \cup {block.id - 1} |->
        IF x = block.id - 1 THEN block ELSE bs[x]]

Store(bs, block) ==
    [x \in DOMAIN bs \cup {block.id} |-> IF x = block.id THEN block ELSE bs[x]]

\* self.next_id += 1
\* seeded fault: the counter skips an id
AllocateSkip(id) == id + 2

Allocate(id) == id + 1

\* call records, besides the arguments, what the classification of the
\* new id read: future_set(id) and anticone_size(id, selected_parent)
NoClassification == [future |-> {}, anticone |-> 0]

create_block(op, parent_ids) ==
    /\ UNCHANGED driver
    /\ IF parent_ids = <<>>
       THEN /\ panicked' = AssertPanic
            /\ ret' = NoRet
            /\ call' = [op |-> op, parents |-> parent_ids,
                        classified |-> NoClassification]
            /\ UNCHANGED dag
       ELSE LET id == next_id
                block == [id |-> id, parents |-> parent_ids,
                          color |-> Classify(blocks, id, selected_parent),
                          hash |-> BlockHash(id, parent_ids)]
                bs == Store(blocks, block)
                ts == UpdateTips(tips, parent_ids, id)
            IN  /\ call' = [op |-> op, parents |-> parent_ids,
                            classified |->
                                [future |-> future_set(blocks, id),
                                 anticone |-> anticone_size(
                                                  blocks, id, selected_parent)]]
                /\ next_id' = Allocate(id)
                /\ blocks' = bs
                /\ tips' = ts
                /\ IF UpdatePanics(bs, ts)
                   THEN /\ panicked' = IndexPanic
                        /\ ret' = NoRet
                        /\ UNCHANGED selected_parent
                   ELSE /\ panicked' = NoPanic
                        /\ ret' = id
                        /\ selected_parent' \in
                               NextSelectedParent(bs, ts, selected_parent)

(***************************************************************************)
(* The parent lists a caller may pass: the empty list, and every list of   *)
(* one or two ids among the stored ids, the id about to be issued and the  *)
(* one after it.                                                           *)
(***************************************************************************)
ParentIds == 0..(next_id + 1)

ParentLists ==
    {<<>>} \cup {<<a>> : a \in ParentIds}
           \cup {<<a, b>> : a \in ParentIds, b \in ParentIds}

CreateBlock ==
    /\ driver = "any"
    /\ panicked = NoPanic
    /\ next_id < MaxFree
    /\ \E parent_ids \in ParentLists : create_block("create_block", parent_ids)
    /\ UNCHANGED <<iter, pc>>

\* a caller that keeps attaching blocks to genesis: the tip set widens
CreateOnGenesis ==
    /\ driver = "wide"
    /\ panicked = NoPanic
    /\ next_id < MaxBlocks
    /\ create_block("create_block", <<0>>)
    /\ UNCHANGED <<iter, pc>>

\* a caller that extends the selected parent, for the first few blocks
CreateOnSelected ==
    /\ driver = "wide"
    /\ panicked = NoPanic
    /\ next_id < MaxFree
    /\ create_block("create_block", <<selected_parent>>)
    /\ UNCHANGED <<iter, pc>>

(***************************************************************************)
(* stitch_if_needed.  all_tips is the tip set in the iteration order of    *)
(* the HashSet.  The tips are distinct, so the tip update removes all but  *)
(* the one visited last: the model chooses that one freely and lists the   *)
(* others in ascending order.                                              *)
(***************************************************************************)
RECURSIVE Ascending(_)
Ascending(S) ==
    IF S = {} THEN <<>>
    ELSE LET m == CHOOSE x \in S : \A y \in S : x <= y
         IN  <<m>> \o Ascending(S \ {m})

Snapshots(ts) == {Ascending(ts \ {last}) \o <<last>> : last \in ts}

\* seeded fault: >= instead of >
NeedsStitchGe(ts) == Cardinality(ts) >= STITCH_THRESHOLD

NeedsStitch(ts) == Cardinality(ts) > STITCH_THRESHOLD

stitch_if_needed ==
    IF NeedsStitch(tips)
    THEN \E all_tips \in Snapshots(tips) :
             create_block("stitch_if_needed", all_tips)
    ELSE /\ call' = [op |-> "stitch_if_needed", parents |-> <<>>,
                     classified |-> NoClassification]
         /\ ret' = NoRet
         /\ UNCHANGED <<dag, panicked, driver>>

StitchIfNeeded ==
    /\ driver \in {"any", "wide"}
    /\ panicked = NoPanic
    /\ next_id < MaxBlocks
    /\ stitch_if_needed
    /\ UNCHANGED <<iter, pc>>

(***************************************************************************)
(* The loop of main: iteration iter passes min(3, |tips|) distinct tips, in *)
(* the order choose_multiple returns them, to create_block, and calls      *)
(* stitch_if_needed when iter is a multiple of 5.                          *)
(***************************************************************************)
choose_multiple(ts, amount) ==
    {s \in [1..amount -> ts] : \A a, b \in 1..amount : s[a] = s[b] => a = b}

NumParents(ts) ==
    IF Cardinality(ts) < MainParents THEN Cardinality(ts) ELSE MainParents

MainCreate ==
    /\ driver = "main"
    /\ panicked = NoPanic
    /\ pc = "create"
    /\ iter <= MainSteps
    /\ \E parents \in choose_multiple(tips, NumParents(tips)) :
           create_block("create_block", parents)
    /\ IF iter % StitchEvery = 0
       THEN pc' = "stitch" /\ iter' = iter
       ELSE pc' = "create" /\ iter' = iter + 1

MainStitch ==
    /\ driver = "main"
    /\ panicked = NoPanic
    /\ pc = "stitch"
    /\ stitch_if_needed
    /\ pc' = "create"
    /\ iter' = iter + 1

Init ==
    /\ blocks = [x \in {0} |-> genesis]
    /\ tips = {0}
    /\ next_id = 1
    /\ selected_parent = 0
    /\ panicked = NoPanic
    /\ call = [op |-> "new", parents |-> <<>>,
                classified |-> NoClassification]
    /\ ret = NoRet
    /\ driver \in {"any", "wide", "main"}
    /\ iter = 1
    /\ pc = "create"

Next ==
    \/ CreateBlock
    \/ CreateOnGenesis
    \/ CreateOnSelected
    \/ StitchIfNeeded
    \/ MainCreate
    \/ MainStitch

Spec == Init /\ [][Next]_vars

(***************************************************************************)
(* Properties.                                                             *)
(***************************************************************************)
Completed == panicked = NoPanic

IsCreation == call.op \in {"create_block", "stitch_if_needed"}

Min(S) == CHOOSE x \in S : \A y \in S : x <= y

\* C1: on a fresh DAG create_block([0]) returns id 1, stores block 1 with
\* colour Blue, and the tip set afterwards is exactly {1}.  (next_id = 2
\* after a create_block: the call was made on the fresh DAG.)
C1_FreshCreateTipsOnlyNew ==
    (call.op = "create_block" /\ call.parents = <<0>> /\ next_id = 2)
        => /\ ret = 1
           /\ 1 \in DOMAIN blocks
           /\ blocks[1].color = Blue
           /\ tips = {1}

\* C2: when the tip set has more than STITCH_THRESHOLD elements,
\* stitch_if_needed creates exactly one block whose parents are, as a set,
\* the tip set before the call, and afterwards the tip set is only the new
\* merge block.
C2_StitchLeavesOnlyMerge ==
    [][(call'.op = "stitch_if_needed" /\ Cardinality(tips) > STITCH_THRESHOLD)
          => /\ next_id' = next_id + 1
             /\ DOMAIN blocks' = DOMAIN blocks \cup {next_id}
             /\ next_id \notin DOMAIN blocks
             /\ Range(blocks'[next_id].parents) = tips
             /\ tips' = {next_id}]_vars

\* C3: the tip set is non-empty in every reachable state.
C3_TipsNonEmpty == tips # {}

\* C3 witness: a call completed in which the guard kept a parent in the tip
\* set.
C3_GuardKeptParent ==
    /\ Completed
    /\ call.op = "create_block"
    /\ \E p \in Range(call.parents) : p \in tips /\ p # next_id - 1

\* C4: the classification of a new id reads future_set(new_id) = {new_id}
\* and an anticone size of 0, which is at most K for every K >= 0: every
\* stored block is Blue.
C4_ClassifiedBeforeLinkBlue ==
    /\ \A id \in DOMAIN blocks : blocks[id].color = Blue
    /\ (IsCreation /\ call.parents # <<>>)
           => /\ call.classified.future = {next_id - 1}
              /\ call.classified.anticone = 0

\* C4 witness: two successive create_block([0]) on the fresh DAG.
C4_TwoChildrenOfGenesis ==
    /\ Completed
    /\ next_id = 3
    /\ blocks[1].parents = <<0>>
    /\ blocks[2].parents = <<0>>
    /\ blocks[1].color = Blue
    /\ blocks[2].color = Blue
    /\ call.classified.anticone = 0

\* C5: selected_parent is the id of a stored block whose colour is Blue.
C5_SelectedParentStoredBlue ==
    /\ selected_parent \in DOMAIN blocks
    /\ blocks[selected_parent].color = Blue

\* C5 witness: update_selected_parent has moved the selected parent off
\* genesis.
C5_SelectedParentMoved ==
    /\ Completed
    /\ call.op = "create_block"
    /\ selected_parent # 0

\* C6: after a create_block call that completed, selected_parent is a tip,
\* is Blue, and no Blue tip has a larger past_set.
C6_SelectedParentHeaviestBlueTip ==
    (Completed /\ IsCreation)
        => /\ selected_parent \in tips
           /\ blocks[selected_parent].color = Blue
           /\ \A t \in BlueTips(blocks, tips) :
                  PastSize(blocks, selected_parent) >= PastSize(blocks, t)

\* C6 witness: a create_block with stored parents left a Blue tip that is
\* lighter than the selected parent.
C6_LighterBlueTipExists ==
    /\ Completed
    /\ call.op = "create_block"
    /\ \A p \in Range(call.parents) : p < next_id - 1
    /\ \E t \in BlueTips(blocks, tips) :
           PastSize(blocks, t) < PastSize(blocks, selected_parent)

\* C7: among the Blue tips of maximal past_set cardinality the smallest id
\* is the selected parent.
C7_SmallestIdTieBreak ==
    (Completed /\ IsCreation /\ call.parents # <<>>)
        => selected_parent = Min(BestBlueTips(blocks, tips))

\* C8: after any sequence of create_block calls, every parent id recorded
\* in a stored block was issued before the block's own id (it was in the
\* store when the block was created): no self reference, no forward
\* reference.
C8_NoForwardReferences ==
    Completed
        => \A id \in DOMAIN blocks :
               \A p \in Range(blocks[id].parents) : p < id

\* C9: a create_block call either completes, with the new block stored
\* under the id returned, or fails and leaves the store, the tip set,
\* next_id and selected_parent as they were.
C9_CreateBlockAtomic ==
    [][/\ (panicked' # NoPanic) => UNCHANGED dag
       /\ (panicked' = NoPanic /\ next_id' # next_id)
              => /\ ret' = next_id
                 /\ next_id \in DOMAIN blocks'
                 /\ next_id \in tips']_vars

\* C10: a lookup of an id that is not in the store never aborts the
\* program.
C10_LookupNeverAborts == panicked # IndexPanic

\* every recorded parent id was issued before the block that records it
AllParentsStored ==
    \A id \in DOMAIN blocks : \A p \in Range(blocks[id].parents) : p < id

C12_FutureSetOfGenesisIsStore ==
    AllParentsStored
        => /\ \A id \in DOMAIN blocks : id \in future_set(blocks, id)
           /\ future_set(blocks, 0) = DOMAIN blocks

\* C12 witness: a block that descends from genesis only through another
\* block.
C12_GrandchildOfGenesis ==
    /\ Completed
    /\ AllParentsStored
    /\ \E id \in DOMAIN blocks :
           /\ blocks[id].parents # <<>>
           /\ 0 \notin Range(blocks[id].parents)
           /\ id \in future_set(blocks, 0)

\* the u64 that 8 big-endian bytes stand for, and the ids in the bytes fed to
\* the hasher
RECURSIVE FromBytes(_, _)
FromBytes(bytes, acc) ==
    IF bytes = <<>> THEN acc ELSE FromBytes(Tail(bytes), acc * 256 + Head(bytes))

RECURSIVE DecodeIds(_)
DecodeIds(bytes) ==
    IF Len(bytes) < 8 THEN <<>>
    ELSE <<FromBytes(SubSeq(bytes, 1, 8), 0)>>
             \o DecodeIds(SubSeq(bytes, 9, Len(bytes)))

IsAscending(s) == \A i \in 1..(Len(s) - 1) : s[i] <= s[i + 1]

Count(s, x) == Cardinality({i \in 1..Len(s) : s[i] = x})

SameMultiset(s, t) ==
    /\ Len(s) = Len(t)
    /\ \A x \in Range(s) \cup Range(t) : Count(s, x) = Count(t, x)

Reverse(s) == [i \in 1..Len(s) |-> s[Len(s) + 1 - i]]

\* C13: the hash of every block but genesis is Sha256 over 8 bytes of its id
\* followed by 8 bytes of each parent id in ascending order, so the same
\* parents in another order give the same hash; the parents field keeps the
\* order the caller passed.
C13_HashOfIdAndSortedParents ==
    /\ \A id \in DOMAIN blocks \ {0} :
           LET b == blocks[id]
               ids == DecodeIds(b.hash[2])
           IN  /\ b.hash[1] = "sha256"
               /\ Len(b.hash[2]) = 8 * (1 + Len(b.parents))
               /\ Head(ids) = id
               /\ IsAscending(Tail(ids))
               /\ SameMultiset(Tail(ids), b.parents)
               /\ BlockHash(id, Reverse(b.parents)) = b.hash
    /\ (IsCreation /\ call.parents # <<>>)
           => blocks[next_id - 1].parents = call.parents

\* C13 witness: a block stored with its parents in descending order.
C13_ParentsPassedDescending ==
    /\ Completed
    /\ \E id \in DOMAIN blocks :
           /\ Len(blocks[id].parents) = 2
           /\ blocks[id].parents[1] > blocks[id].parents[2]
           /\ blocks[id].parents[1] < id

\* C14: a stored block stays in the store with the same id, parents, colour
\* and hash in every later state; genesis is always id 0, no parents, Blue,
\* hash of 32 zero bytes.
C14_BlocksImmutable ==
    [][/\ \A id \in DOMAIN blocks :
              id \in DOMAIN blocks' /\ blocks'[id] = blocks[id]
       /\ blocks'[0].id = 0
       /\ blocks'[0].parents = <<>>
       /\ blocks'[0].color = Blue
       /\ blocks'[0].hash = [i \in 1..32 |-> 0]]_vars

\* C14 witness: a block created earlier is still stored after a later
\* block was inserted.
C14_EarlierBlockKept ==
    /\ Completed
    /\ call.op = "create_block"
    /\ next_id >= 3
    /\ blocks[1].id = 1

\* C15: the tip set is exactly the set of stored blocks that no stored
\* block records as a parent.
C15_TipsAreChildless ==
    Completed
        => tips = {id \in DOMAIN blocks :
                      \A c \in DOMAIN blocks : id \notin Range(blocks[c].parents)}

\* C16: stitch_if_needed called with at most STITCH_THRESHOLD tips changes
\* nothing of the DAG; it creates a block only when there are more.
C16_StitchOnlyAboveThreshold ==
    [][(call'.op = "stitch_if_needed")
          => /\ (Cardinality(tips) <= STITCH_THRESHOLD) => UNCHANGED dag
             /\ (next_id' # next_id) => Cardinality(tips) > STITCH_THRESHOLD]_vars

\* C16 witness: stitch_if_needed was called with exactly STITCH_THRESHOLD
\* tips and created nothing.
C16_StitchAtThresholdIdle ==
    /\ call.op = "stitch_if_needed"
    /\ call.parents = <<>>
    /\ Cardinality(tips) = STITCH_THRESHOLD

\* C17: the stored ids are exactly 0 .. next_id - 1; a create_block that
\* gets past its assertion takes the id next_id, raises next_id by 1, and
\* returns that id when it completes.
C17_IdsDenseMonotonic ==
    /\ [](DOMAIN blocks = 0..(next_id - 1))
    /\ [][/\ next_id' \in {next_id, next_id + 1}
          /\ (next_id' # next_id /\ panicked' = NoPanic) => ret' = next_id
          /\ (next_id' # next_id) => DOMAIN blocks' = DOMAIN blocks \cup {next_id}
          /\ (next_id' = next_id) => blocks' = blocks]_vars

\* C17 witness: three ids were issued in a row.
C17_ThreeIdsIssued ==
    /\ Completed
    /\ next_id = 4
    /\ ret = 3

\* C18: after every create_block the tip set has at least 2 elements; it
\* has 1 element only as long as no block was created.
C18_TwoTipsAfterCreate ==
    /\ (next_id = 1) => tips = {0}
    /\ (next_id > 1) => Cardinality(tips) >= 2

\* C18 witness: a stitch fired and left two tips, the merge block and the
\* tip visited last.
C18_TwoTipsAfterStitch ==
    /\ Completed
    /\ call.op = "stitch_if_needed"
    /\ call.parents # <<>>
    /\ Cardinality(tips) = 2
    /\ \E p \in Range(call.parents) : p \in tips

\* C19: under the loop of main the tip set never has more than 2 elements,
\* so stitch_if_needed never finds more than STITCH_THRESHOLD tips and no
\* merge block is created.
C19_MainNeverStitches ==
    (driver = "main")
        => /\ Cardinality(tips) <= 2
           /\ ~NeedsStitch(tips)
           /\ (call.op = "stitch_if_needed") => call.parents = <<>>

\* C19 witness: main called stitch_if_needed after its 5th block and the
\* call created nothing.
C19_MainStitchIdle ==
    /\ driver = "main"
    /\ Completed
    /\ call.op = "stitch_if_needed"
    /\ iter = StitchEvery + 1
    /\ next_id = StitchEvery + 1
    /\ Cardinality(tips) = 2

\* C20: from one state to the next the cardinality of
\* past_set(selected_parent) never decreases.
C20_SelectedPastNeverShrinks ==
    [][PastSize(blocks', selected_parent') >= PastSize(blocks, selected_parent)]_vars

\* C20 witness: calls with stored parents moved the selected parent to a
\* block with more than one ancestor, away from a tip that stayed.
C20_SelectedParentGrew ==
    /\ Completed
    /\ AllParentsStored
    /\ call.op = "create_block"
    /\ PastSize(blocks, selected_parent) >= 3
    /\ \E t \in tips : PastSize(blocks, t) < PastSize(blocks, selected_parent)

====
